---------------------------- MODULE Spec2Model ----------------------------
(***************************************************************************)
(* A model of homework.py: the polling bot that fetches the homework       *)
(* status from the review API, validates and parses the answer and sends   *)
(* a Telegram message when the status text changes.                        *)
(*                                                                         *)
(* Texts of the source are Russian; the module writes them transliterated  *)
(* (strings of a module are ASCII).  A text is a sequence of fragments,    *)
(* literal or formatted number, so that an f-string is modelled by what    *)
(* it concatenates.                                                        *)
(***************************************************************************)
EXTENDS Integers, Sequences, FiniteSets, TLC

(***************************************************************************)
(* Bounds of the model.                                                    *)
(***************************************************************************)
\* cycles of the while-loop of main() that are explored
MaxCycles == 3
\* longest `homeworks` list the API answers with
MaxHomeworks == 2

(***************************************************************************)
(* Program constants.                                                      *)
(***************************************************************************)
RETRY_PERIOD == 600
HTTPStatusOK == 200

(***************************************************************************)
(* Texts.                                                                  *)
(***************************************************************************)
Lit(s) == [s |-> s, n |-> 0]
Num(n) == [s |-> "%d", n |-> n]

\* Python's None and a present value, for the variables that hold either.
None == [some |-> FALSE, v |-> <<>>]
Some(x) == [some |-> TRUE, v |-> x]

(***************************************************************************)
(* Decoded JSON values: what response.json() returns.                      *)
(***************************************************************************)
JNull == [t |-> "null"]
JStr(s) == [t |-> "str", v |-> s]
JInt(n) == [t |-> "int", v |-> n]
JList(items) == [t |-> "list", items |-> items]
JDict(d) == [t |-> "dict", d |-> d]

\* isinstance(x, dict), isinstance(x, list)
IsDict(x) == x.t = "dict"
IsList(x) == x.t = "list"
\* dict.get(key): the value, or None when the key is absent
DictGet(x, key) == IF key \in DOMAIN x.d THEN x.d[key] ELSE JNull
\* the truth value of a list: non-empty
Truthy(x) == IF IsList(x) THEN Len(x.items) > 0 ELSE x.t # "null"
\* str(x) inside an f-string
PyStr(x) ==
    CASE x.t = "null" -> <<Lit("None")>>
      [] x.t = "str" -> <<Lit(x.v)>>
      [] x.t = "int" -> <<Num(x.v)>>
      [] OTHER -> <<Lit("<object>")>>

HOMEWORK_VERDICTS ==
    [approved |-> "Rabota proverena: revyueru vsyo ponravilos. Ura!",
     reviewing |-> "Rabota vzyata na proverku revyuerom.",
     rejected |-> "Rabota proverena: u revyuera est zamechaniya."]

(***************************************************************************)
(* Exceptions and results of a call.                                       *)
(***************************************************************************)
Exc(type, text) == [type |-> type, text |-> text]
Return(v) == [kind |-> "return", value |-> v]
Raise(e) == [kind |-> "raise", exc |-> e]

\* IncorrectStatusError is imported from exceptions.py, which is not part of
\* the sources at hand: it is taken to derive from Exception and no more.
IncorrectStatusErrorBases == {"IncorrectStatusError", "Exception"}

\* the classes an exception of the given type is an instance of
Bases(type) ==
    CASE type = "IncorrectStatusError" -> IncorrectStatusErrorBases
      [] type = "TelegramError" -> {"TelegramError", "Exception"}
      [] type = "UnboundLocalError" -> {"UnboundLocalError", "NameError", "Exception"}
      [] type = "JSONDecodeError" -> {"JSONDecodeError", "RequestException", "Exception"}
      [] type = "KeyError" -> {"KeyError", "LookupError", "Exception"}
      [] OTHER -> {type, "Exception"}
IsInstance(e, class) == class \in Bases(e.type)

\* str(error): KeyError shows the repr of its argument, the others the argument
StrOfExc(e) ==
    IF e.type = "KeyError" THEN <<Lit("'")>> \o e.text \o <<Lit("'")>> ELSE e.text


(***************************************************************************)
(* What a call leaves behind: the requests, deliveries, log records and    *)
(* sleeps, in the order they happen.                                       *)
(***************************************************************************)
EvCall(fn) == [ev |-> "call", fn |-> fn]
EvRequest(params) == [ev |-> "request", from_date |-> params.from_date]
EvDeliver(chat, text, outcome) ==
    [ev |-> "deliver", chat |-> chat, text |-> text, outcome |-> outcome]
EvLog(level, by) == [ev |-> "log", level |-> level, by |-> by]
EvSleep(secs) == [ev |-> "sleep", secs |-> secs]
Effect(events, result) == [events |-> events, result |-> result]

(***************************************************************************)
(* The environment: what the network and the Telegram bot may answer.      *)
(***************************************************************************)
\* bot.send_message delivers, or raises a TelegramError, or raises something else
BotOutcomes == {"ok", "TelegramError", "RuntimeError"}

Names == {"hw1", "hw2"}
Statuses == {"approved", "reviewing", "rejected", "bogus"}
Record(name, status) == JDict([homework_name |-> JStr(name), status |-> JStr(status)])
\* the records the first place of the list is drawn from
HeadItems ==
    {Record(n, s) : n \in Names, s \in Statuses}
    \cup {JDict([homework_name |-> JStr(n)]) : n \in Names}
    \cup {JDict([status |-> JStr(s)]) : s \in {"approved", "bogus"}}
    \cup {JDict(<<>>), JNull}
\* the records the later places are drawn from
TailItems == {Record("hw2", "rejected"), Record("hw1", "bogus")}
RECURSIVE SeqsUpTo(_, _)
SeqsUpTo(S, n) ==
    IF n = 0 THEN {<<>>}
    ELSE LET shorter == SeqsUpTo(S, n - 1)
         IN shorter \cup {Append(q, x) : q \in {r \in shorter : Len(r) = n - 1}, x \in S}
HomeworkLists ==
    {<<>>} \cup {<<h>> \o tl : h \in HeadItems, tl \in SeqsUpTo(TailItems, MaxHomeworks - 1)}
\* the decoded bodies: not a mapping, a mapping without a list, a mapping with one
DecodedBodies ==
    {JNull, JList(<<>>), JList(<<Record("hw1", "approved")>>), JStr("homeworks")}
    \cup {JDict(<<>>), JDict([current_date |-> JInt(7)]),
          JDict([homeworks |-> JNull]), JDict([homeworks |-> JStr("hw1")]),
          JDict([homeworks |-> JDict(<<>>), current_date |-> JInt(7)])}
    \cup {JDict([homeworks |-> JList(l)]) : l \in HomeworkLists}
    \cup {JDict([homeworks |-> JList(l), current_date |-> JInt(7)]) :
            l \in {<<>>, <<Record("hw1", "approved")>>}}
JsonBody(v) == [json |-> TRUE, value |-> v]
NotJsonBody == [json |-> FALSE, value |-> JNull]
Bodies == {NotJsonBody} \cup {JsonBody(v) : v \in DecodedBodies}
StatusCodes == {200, 404, 503}
\* requests.get raises a RequestException, or completes with a status and a body
NetFailure == [completed |-> FALSE, status_code |-> 0, body |-> NotJsonBody]
NetOutcomes ==
    {NetFailure}
    \cup {[completed |-> TRUE, status_code |-> 200, body |-> b] : b \in Bodies}
    \cup {[completed |-> TRUE, status_code |-> c, body |-> b] :
            c \in StatusCodes \ {200},
            b \in {NotJsonBody, JsonBody(JDict([homeworks |-> JList(<<>>)]))}}

(***************************************************************************)
(* The functions of homework.py.                                           *)
(***************************************************************************)
\* check_tokens looking for None alone: an empty token passes
MissingTokens_NoneOnly(tok) ==
    {i \in {"PRACTICUM_TOKEN", "TELEGRAM_TOKEN", "TELEGRAM_CHAT_ID"} :
        tok[i] = "<unset>"}

\* check_tokens(): the names of the required tokens that are falsy
\* (ENDPOINT is a non-empty literal)
MissingTokens(tok) ==
    {i \in {"PRACTICUM_TOKEN", "TELEGRAM_TOKEN", "TELEGRAM_CHAT_ID"} :
        tok[i] \in {"", "<unset>"}}

\* send_message raising the failure again after logging it
send_message_Reraises(chat, bot, message) ==
    IF bot = "ok"
    THEN Effect(<<EvDeliver(chat, message, bot)>>, Return(JNull))
    ELSE Effect(<<EvDeliver(chat, message, bot), EvLog("error", "send_message")>>,
                Raise(Exc(bot, <<Lit("delivery failed")>>)))

\* send_message(bot, message): one bot.send_message; any Exception of it is
\* logged and not raised again
send_message(chat, bot, message) ==
    IF bot = "ok"
    THEN Effect(<<EvDeliver(chat, message, bot)>>, Return(JNull))
    ELSE Effect(<<EvDeliver(chat, message, bot), EvLog("error", "send_message")>>,
                Return(JNull))

\* response.json()
JsonOf(body) ==
    IF body.json THEN Return(body.value)
    ELSE Raise(Exc("JSONDecodeError", <<Lit("Expecting value: line 1 column 1 (char 0)")>>))

\* the text of the IncorrectStatusError of get_api_answer
IncorrectStatusText(params, status_code) ==
    <<Lit("Pri otpravke zaprosa c params "), Lit("{'from_date': "),
      Num(params.from_date), Lit("}"), Lit("byl poluchen "), Num(status_code)>>

\* get_api_answer asking once more when the first request does not complete
get_api_answer_Retries(timestamp, net) ==
    LET params == [from_date |-> timestamp]
    IN IF ~net.completed
       THEN Effect(<<EvRequest(params), EvLog("error", "get_api_answer"),
                     EvRequest(params), EvLog("error", "get_api_answer")>>,
                   Raise(Exc("UnboundLocalError",
                       <<Lit("local variable 'status_code' referenced before assignment")>>)))
       ELSE IF net.status_code # HTTPStatusOK
       THEN Effect(<<EvRequest(params)>>,
                   Raise(Exc("IncorrectStatusError",
                             IncorrectStatusText(params, net.status_code))))
       ELSE Effect(<<EvRequest(params)>>, JsonOf(net.body))

\* get_api_answer without the test of status_code
get_api_answer_NoStatusCheck(timestamp, net) ==
    LET params == [from_date |-> timestamp]
    IN IF ~net.completed
       THEN Effect(<<EvRequest(params), EvLog("error", "get_api_answer")>>,
                   Raise(Exc("UnboundLocalError",
                       <<Lit("local variable 'status_code' referenced before assignment")>>)))
       ELSE Effect(<<EvRequest(params)>>, JsonOf(net.body))

\* get_api_answer(timestamp): one requests.get.  A RequestException is logged
\* and execution goes on to the test of status_code, which was never assigned.
get_api_answer(timestamp, net) ==
    LET params == [from_date |-> timestamp]
    IN IF ~net.completed
       THEN Effect(<<EvRequest(params), EvLog("error", "get_api_answer")>>,
                   Raise(Exc("UnboundLocalError",
                       <<Lit("local variable 'status_code' referenced before assignment")>>)))
       ELSE IF net.status_code # HTTPStatusOK
       THEN Effect(<<EvRequest(params)>>,
                   Raise(Exc("IncorrectStatusError",
                             IncorrectStatusText(params, net.status_code))))
       ELSE Effect(<<EvRequest(params)>>, JsonOf(net.body))

\* check_response returning a fresh mapping that holds the list alone
check_response_Normalises(response) ==
    IF IsDict(response)
    THEN IF IsList(DictGet(response, "homeworks"))
         THEN Effect(<<>>, Return(JDict([homeworks |-> response.d["homeworks"]])))
         ELSE Effect(<<EvLog("error", "check_response:homeworks")>>,
                     Raise(Exc("TypeError", <<Lit("Nevernyj format otveta")>>)))
    ELSE Effect(<<EvLog("error", "check_response:response")>>,
                Raise(Exc("TypeError", <<Lit("Nevernyj format otveta")>>)))

\* check_response testing the truth value of the list instead of its type:
\* an empty list is refused
check_response_RejectsEmpty(response) ==
    IF IsDict(response)
    THEN IF Truthy(DictGet(response, "homeworks")) /\ IsList(DictGet(response, "homeworks"))
         THEN Effect(<<>>, Return(response))
         ELSE Effect(<<EvLog("error", "check_response:homeworks")>>,
                     Raise(Exc("TypeError", <<Lit("Nevernyj format otveta")>>)))
    ELSE Effect(<<EvLog("error", "check_response:response")>>,
                Raise(Exc("TypeError", <<Lit("Nevernyj format otveta")>>)))

\* check_response(response)
check_response(response) ==
    IF IsDict(response)
    THEN IF IsList(DictGet(response, "homeworks"))
         THEN Effect(<<>>, Return(response))
         ELSE Effect(<<EvLog("error", "check_response:homeworks")>>,
                     Raise(Exc("TypeError", <<Lit("Nevernyj format otveta")>>)))
    ELSE Effect(<<EvLog("error", "check_response:response")>>,
                Raise(Exc("TypeError", <<Lit("Nevernyj format otveta")>>)))

\* parse_status looking at the status before the name
parse_status_StatusFirst(homework) ==
    IF ~IsDict(homework)
    THEN Effect(<<>>, Raise(Exc("TypeError",
                    <<Lit("argument of type 'NoneType' is not iterable")>>)))
    ELSE LET status == DictGet(homework, "status")
         IN IF ~(status.t = "str" /\ status.v \in DOMAIN HOMEWORK_VERDICTS)
            THEN Effect(<<EvLog("error", "parse_status:status")>>,
                   Raise(Exc("ValueError",
                     <<Lit("Neizvestnyj status domashnej raboty: ")>> \o PyStr(status))))
            ELSE IF "homework_name" \in DOMAIN homework.d
            THEN Effect(<<>>, Return(
                   <<Lit("Izmenilsya status proverki raboty \"")>>
                   \o PyStr(homework.d["homework_name"])
                   \o <<Lit("\". "), Lit(HOMEWORK_VERDICTS[status.v])>>))
            ELSE Effect(<<EvLog("error", "parse_status:homework_name")>>,
                   Raise(Exc("KeyError",
                     <<Lit("V slovare otsutstvuet klyuch homework_name")>>)))

\* parse_status(homework)
parse_status(homework) ==
    IF ~IsDict(homework)
    THEN \* 'homework_name' in None
         Effect(<<>>, Raise(Exc("TypeError",
                    <<Lit("argument of type 'NoneType' is not iterable")>>)))
    ELSE IF "homework_name" \in DOMAIN homework.d
    THEN LET homework_name == homework.d["homework_name"]
             status == DictGet(homework, "status")
         IN IF status.t = "str" /\ status.v \in DOMAIN HOMEWORK_VERDICTS
            THEN Effect(<<>>, Return(
                   <<Lit("Izmenilsya status proverki raboty \"")>> \o PyStr(homework_name)
                   \o <<Lit("\". "), Lit(HOMEWORK_VERDICTS[status.v])>>))
            ELSE Effect(<<EvLog("error", "parse_status:status")>>,
                   Raise(Exc("ValueError",
                     <<Lit("Neizvestnyj status domashnej raboty: ")>> \o PyStr(status))))
    ELSE Effect(<<EvLog("error", "parse_status:homework_name")>>,
           Raise(Exc("KeyError", <<Lit("V slovare otsutstvuet klyuch homework_name")>>)))


(***************************************************************************)
(* Reading a sequence of events.                                           *)
(***************************************************************************)
Requests(trace) == SelectSeq(trace, LAMBDA e : e.ev = "request")
Deliveries(trace) == SelectSeq(trace, LAMBDA e : e.ev = "deliver")
Sleeps(trace) == SelectSeq(trace, LAMBDA e : e.ev = "sleep")
Calls(trace, fn) == SelectSeq(trace, LAMBDA e : e.ev = "call" /\ e.fn = fn)
Logs(trace, level, by) ==
    SelectSeq(trace, LAMBDA e : e.ev = "log" /\ e.level = level /\ e.by = by)
\* the places of the calls of send_message
SendCalls(trace) ==
    {i \in 1..Len(trace) :
        trace[i].ev = "call" /\ trace[i].fn \in {"send_message:status", "send_message:error"}}
\* the delivery attempts made by the calls fn of send_message
Attempts(trace, fn) ==
    Cardinality({i \in 1..Len(trace) - 1 :
        /\ trace[i].ev = "call" /\ trace[i].fn = fn
        /\ trace[i + 1].ev = "deliver"})
StatusAttempts(trace) == Attempts(trace, "send_message:status")
ErrorAttempts(trace) == Attempts(trace, "send_message:error")
\* the iteration went through a handler of main()
Failed(trace) ==
    Len(Logs(trace, "error", "main:Exception"))
    + Len(Logs(trace, "error", "main:TelegramError")) > 0
\* what is kept of an iteration once it is over
Summary(trace, parsed, exc, last) ==
    [requests |-> Len(Requests(trace)),
     from_dates |-> [i \in 1..Len(Requests(trace)) |-> Requests(trace)[i].from_date],
     parsed |-> parsed,
     status_attempts |-> StatusAttempts(trace),
     error_attempts |-> ErrorAttempts(trace),
     error |-> exc,
     failed |-> Failed(trace),
     delivery_failures |->
         Len(SelectSeq(trace, LAMBDA e : e.ev = "deliver" /\ e.outcome # "ok")),
     last_message |-> last,
     sleeps |-> [i \in 1..Len(Sleeps(trace)) |-> Sleeps(trace)[i].secs]]
NoSummary ==
    [requests |-> 0, from_dates |-> <<>>, parsed |-> None, status_attempts |-> 0,
     error_attempts |-> 0, error |-> None, failed |-> FALSE, delivery_failures |-> 0,
     last_message |-> None,
     sleeps |-> <<>>]

(***************************************************************************)
(* The state: the environment, the variables of main() and its position,   *)
(* and what the current and the previous iteration have done.              *)
(***************************************************************************)
VARIABLES
    tokens,         \* PRACTICUM_TOKEN, TELEGRAM_TOKEN, TELEGRAM_CHAT_ID as loaded
    now,            \* the clock, time.time() in whole seconds
    net,            \* what the network answered to the request of this iteration
    pc,             \* where main() stands
    exit_code,      \* None while the process runs, else the status it ended with
    timestamp,      \* main(): timestamp
    last_message,   \* main(): last_message
    response,       \* main(): response
    new_homeworks,  \* main(): new_homeworks
    message,        \* main(): message
    error,          \* the exception raised in the try-body of this iteration
    cycle,          \* the number of the iteration of the while-loop
    cur,            \* the events of the current iteration, in order
    prev,           \* the summary of the iteration before it
    ok_time         \* the clock when the try-body last ended without an exception

vars == <<tokens, now, net, pc, exit_code, timestamp, last_message, response,
          new_homeworks, message, error, cycle, cur, prev, ok_time>>

TokenNames == {"PRACTICUM_TOKEN", "TELEGRAM_TOKEN", "TELEGRAM_CHAT_ID"}
\* os.getenv gives None for a variable that is not set
TokenValues == {"<unset>", "", "tok"}
\* the clock at the start of the process
StartTimes == {1000}

Init ==
    /\ tokens \in [TokenNames -> TokenValues]
    /\ now \in StartTimes
    /\ net = None
    /\ pc = "check_tokens"
    /\ exit_code = None
    /\ timestamp = None
    /\ last_message = None
    /\ response = None
    /\ new_homeworks = None
    /\ message = None
    /\ error = None
    /\ cycle = 0
    /\ cur = <<>>
    /\ prev = NoSummary
    /\ ok_time = None

\* main(), line 109: check_tokens() returns, or logs and leaves with sys.exit(1)
CheckTokens ==
    /\ pc = "check_tokens"
    /\ IF MissingTokens(tokens) # {}
       THEN /\ cur' = Append(cur, EvLog("critical", "check_tokens"))
            /\ exit_code' = Some(1)
            /\ pc' = "exited"
       ELSE /\ pc' = "main_init"
            /\ UNCHANGED <<cur, exit_code>>
    /\ UNCHANGED <<tokens, now, net, timestamp, last_message, response, new_homeworks,
                   message, error, cycle, prev, ok_time>>

\* MainInit starting from the time of the start itself
MainInit_NoLookBack ==
    /\ pc = "main_init"
    /\ timestamp' = Some(now)
    /\ last_message' = None
    /\ cycle' = 1
    /\ pc' = "fetch"
    /\ UNCHANGED <<tokens, now, net, exit_code, response, new_homeworks, message,
                   error, cur, prev, ok_time>>

\* main(), lines 111-113
MainInit ==
    /\ pc = "main_init"
    /\ timestamp' = Some(now - RETRY_PERIOD)
    /\ last_message' = None
    /\ cycle' = 1
    /\ pc' = "fetch"
    /\ UNCHANGED <<tokens, now, net, exit_code, response, new_homeworks, message,
                   error, cur, prev, ok_time>>

\* main(), line 117 and the way to the handlers
GetApiAnswer ==
    /\ pc = "fetch"
    /\ cycle <= MaxCycles
    /\ \E answer \in NetOutcomes :
        LET r == get_api_answer(timestamp.v, answer)
        IN /\ net' = Some(answer)
           /\ cur' = cur \o <<EvCall("get_api_answer")>> \o r.events
           /\ IF r.result.kind = "return"
              THEN response' = Some(r.result.value) /\ error' = None /\ pc' = "check"
              ELSE response' = None /\ error' = Some(r.result.exc) /\ pc' = "except"
    /\ UNCHANGED <<tokens, now, exit_code, timestamp, last_message, new_homeworks,
                   message, cycle, prev, ok_time>>

\* main(), line 118
CheckResponse ==
    /\ pc = "check"
    /\ LET r == check_response(response.v)
       IN /\ cur' = cur \o <<EvCall("check_response")>> \o r.events
          /\ IF r.result.kind = "return"
             THEN new_homeworks' = Some(r.result.value) /\ error' = None /\ pc' = "homeworks"
             ELSE new_homeworks' = None /\ error' = Some(r.result.exc) /\ pc' = "except"
    /\ UNCHANGED <<tokens, now, net, exit_code, timestamp, last_message, response,
                   message, cycle, prev, ok_time>>

\* ParseStatus taking the last record of the list instead of the first
ParseStatus_Last ==
    /\ pc = "homeworks"
    /\ Truthy(new_homeworks.v.d["homeworks"])
    /\ LET items == new_homeworks.v.d["homeworks"].items
           r == parse_status(items[Len(items)])
       IN /\ cur' = cur \o <<EvCall("parse_status")>> \o r.events
          /\ IF r.result.kind = "return"
             THEN message' = Some(r.result.value) /\ error' = None /\ pc' = "compare"
             ELSE message' = None /\ error' = Some(r.result.exc) /\ pc' = "except"
    /\ UNCHANGED <<tokens, now, net, exit_code, timestamp, last_message, response,
                   new_homeworks, cycle, prev, ok_time>>

\* main(), lines 119-121: the list is not empty, its first record is parsed
ParseStatus ==
    /\ pc = "homeworks"
    /\ Truthy(new_homeworks.v.d["homeworks"])
    /\ LET homework == new_homeworks.v.d["homeworks"].items[1]
           r == parse_status(homework)
       IN /\ cur' = cur \o <<EvCall("parse_status")>> \o r.events
          /\ IF r.result.kind = "return"
             THEN message' = Some(r.result.value) /\ error' = None /\ pc' = "compare"
             ELSE message' = None /\ error' = Some(r.result.exc) /\ pc' = "except"
    /\ UNCHANGED <<tokens, now, net, exit_code, timestamp, last_message, response,
                   new_homeworks, cycle, prev, ok_time>>

\* main(), lines 119, 125-126: the list is empty
NoNewStatuses ==
    /\ pc = "homeworks"
    /\ ~Truthy(new_homeworks.v.d["homeworks"])
    /\ cur' = Append(cur, EvLog("debug", "main:no_new_statuses"))
    /\ ok_time' = Some(now)
    /\ pc' = "finally"
    /\ UNCHANGED <<tokens, now, net, exit_code, timestamp, last_message, response,
                   new_homeworks, message, error, cycle, prev>>

\* SendStatus without line 124: the message sent is not remembered
SendStatus_KeepsLast ==
    /\ pc = "compare"
    /\ message # last_message
    /\ \E bot \in BotOutcomes :
        LET r == send_message(tokens["TELEGRAM_CHAT_ID"], bot, message.v)
        IN cur' = cur \o <<EvCall("send_message:status")>> \o r.events
    /\ ok_time' = Some(now)
    /\ pc' = "finally"
    /\ UNCHANGED <<tokens, now, net, exit_code, timestamp, last_message, response,
                   new_homeworks, message, error, cycle, prev>>

\* SendStatus calling bot.send_message itself, with no try around it: a
\* failed delivery goes to the handlers of main()
SendStatus_Unguarded ==
    /\ pc = "compare"
    /\ message # last_message
    /\ \E bot \in BotOutcomes :
        /\ cur' = cur \o <<EvCall("send_message:status"),
                           EvDeliver(tokens["TELEGRAM_CHAT_ID"], message.v, bot)>>
        /\ IF bot = "ok"
           THEN /\ last_message' = message
                /\ ok_time' = Some(now)
                /\ pc' = "finally"
                /\ UNCHANGED error
           ELSE /\ error' = Some(Exc(bot, <<Lit("delivery failed")>>))
                /\ pc' = "except"
                /\ UNCHANGED <<last_message, ok_time>>
    /\ UNCHANGED <<tokens, now, net, exit_code, timestamp, response, new_homeworks,
                   message, cycle, prev>>

\* main(), lines 122-124: the message differs from the last one
SendStatus ==
    /\ pc = "compare"
    /\ message # last_message
    /\ \E bot \in BotOutcomes :
        LET r == send_message(tokens["TELEGRAM_CHAT_ID"], bot, message.v)
        IN /\ cur' = cur \o <<EvCall("send_message:status")>> \o r.events
           /\ IF r.result.kind = "return"
              THEN /\ last_message' = message
                   /\ ok_time' = Some(now)
                   /\ pc' = "finally"
                   /\ UNCHANGED error
              ELSE /\ error' = Some(r.result.exc)
                   /\ pc' = "except"
                   /\ UNCHANGED <<last_message, ok_time>>
    /\ UNCHANGED <<tokens, now, net, exit_code, timestamp, response, new_homeworks,
                   message, cycle, prev>>

\* main(), line 122: the message is the last one, nothing is sent
SkipDuplicate ==
    /\ pc = "compare"
    /\ message = last_message
    /\ ok_time' = Some(now)
    /\ pc' = "finally"
    /\ UNCHANGED <<tokens, now, net, exit_code, timestamp, last_message, response,
                   new_homeworks, message, error, cycle, cur, prev>>

\* HandleException moving the window on: timestamp is set to the clock
HandleException_AdvancesTimestamp ==
    /\ pc = "except"
    /\ \E bot \in BotOutcomes :
          LET text == <<Lit("Proizoshla oshibka: ")>> \o StrOfExc(error.v)
              r == send_message(tokens["TELEGRAM_CHAT_ID"], bot, text)
          IN cur' = cur \o <<EvLog("error", "main:Exception"),
                             EvCall("send_message:error")>> \o r.events
    /\ timestamp' = Some(now)
    /\ pc' = "finally"
    /\ UNCHANGED <<tokens, now, net, exit_code, last_message, response,
                   new_homeworks, message, error, cycle, prev, ok_time>>

\* HandleException with the sleep in the try-body instead of a finally-block:
\* after an error the loop goes on at once
HandleException_NoSleep ==
    /\ pc = "except"
    /\ \E bot \in BotOutcomes :
          LET text == <<Lit("Proizoshla oshibka: ")>> \o StrOfExc(error.v)
              r == send_message(tokens["TELEGRAM_CHAT_ID"], bot, text)
          IN cur' = cur \o <<EvLog("error", "main:Exception"),
                             EvCall("send_message:error")>> \o r.events
    /\ cycle' = cycle + 1
    /\ pc' = "fetch"
    /\ UNCHANGED <<tokens, now, net, exit_code, timestamp, last_message, response,
                   new_homeworks, message, error, prev, ok_time>>

\* HandleException calling bot.send_message itself, inside suppress() alone:
\* a failure that is no TelegramError leaves the handler
HandleException_Unguarded ==
    /\ pc = "except"
    /\ \E bot \in BotOutcomes :
          LET text == <<Lit("Proizoshla oshibka: ")>> \o StrOfExc(error.v)
          IN /\ cur' = cur \o <<EvLog("error", "main:Exception"),
                                EvCall("send_message:error"),
                                EvDeliver(tokens["TELEGRAM_CHAT_ID"], text, bot)>>
             /\ pc' = IF bot \in {"ok", "TelegramError"} THEN "finally" ELSE "finally_raise"
    /\ UNCHANGED <<tokens, now, net, exit_code, timestamp, last_message, response,
                   new_homeworks, message, error, cycle, prev, ok_time>>

\* HandleException keeping the text of the error notification as last_message
HandleException_RecordsError ==
    /\ pc = "except"
    /\ IF IsInstance(error.v, "TelegramError")
       THEN /\ cur' = Append(cur, EvLog("error", "main:TelegramError"))
            /\ pc' = "finally"
            /\ UNCHANGED last_message
       ELSE \E bot \in BotOutcomes :
               LET text == <<Lit("Proizoshla oshibka: ")>> \o StrOfExc(error.v)
                   r == send_message(tokens["TELEGRAM_CHAT_ID"], bot, text)
               IN /\ cur' = cur \o <<EvLog("error", "main:Exception"),
                                     EvCall("send_message:error")>> \o r.events
                  /\ last_message' = Some(text)
                  /\ pc' = IF r.result.kind = "return"
                              \/ IsInstance(r.result.exc, "TelegramError")
                           THEN "finally" ELSE "finally_raise"
    /\ UNCHANGED <<tokens, now, net, exit_code, timestamp, response,
                   new_homeworks, message, error, cycle, prev, ok_time>>

\* main(), lines 127-133: the two handlers.  suppress() lets nothing but a
\* TelegramError pass in silence; anything else leaves main() after the
\* finally-block.
HandleException ==
    /\ pc = "except"
    /\ IF IsInstance(error.v, "TelegramError")
       THEN /\ cur' = Append(cur, EvLog("error", "main:TelegramError"))
            /\ pc' = "finally"
       ELSE \E bot \in BotOutcomes :
               LET text == <<Lit("Proizoshla oshibka: ")>> \o StrOfExc(error.v)
                   r == send_message(tokens["TELEGRAM_CHAT_ID"], bot, text)
               IN /\ cur' = cur \o <<EvLog("error", "main:Exception"),
                                     EvCall("send_message:error")>> \o r.events
                  /\ pc' = IF r.result.kind = "return"
                              \/ IsInstance(r.result.exc, "TelegramError")
                           THEN "finally" ELSE "finally_raise"
    /\ UNCHANGED <<tokens, now, net, exit_code, timestamp, last_message, response,
                   new_homeworks, message, error, cycle, prev, ok_time>>

\* main(), lines 134-135 and back to line 115.  The iteration is over: its
\* events are summed up, and the locals that the next iteration assigns
\* before it reads them are cleared.  The program reads the clock at line
\* 112 alone: the sleep is taken to last its argument.  With an exception
\* on its way out of a handler the process ends after the sleep.
Sleep ==
    /\ pc \in {"finally", "finally_raise"}
    /\ prev' = Summary(Append(cur, EvSleep(RETRY_PERIOD)), message, error, last_message)
    /\ cur' = <<>>
    /\ now' = now + RETRY_PERIOD
    /\ cycle' = cycle + 1
    /\ net' = None
    /\ response' = None
    /\ new_homeworks' = None
    /\ message' = None
    /\ error' = None
    /\ IF pc = "finally"
       THEN pc' = "fetch" /\ UNCHANGED exit_code
       ELSE pc' = "crashed" /\ exit_code' = Some(1)
    /\ UNCHANGED <<tokens, timestamp, last_message, ok_time>>

Next ==
    \/ CheckTokens
    \/ MainInit
    \/ GetApiAnswer
    \/ CheckResponse
    \/ ParseStatus
    \/ NoNewStatuses
    \/ SendStatus
    \/ SkipDuplicate
    \/ HandleException
    \/ Sleep

Spec == Init /\ [][Next]_vars

\* main() is the only thread and every call it makes comes back: whenever a
\* step is possible one is taken.
FairSpec == Spec /\ WF_vars(Next)

(***************************************************************************)
(* The claims.                                                             *)
(***************************************************************************)
\* the try-body of this iteration has parsed the first record and is over
ParsedAndDone == pc = "finally" /\ message.some

\* C1 as stated: in an iteration whose first record parses, the status
\* message is delivered exactly when it differs from last_message as it was
\* before the iteration, last_message then is the parsed message, and two
\* iterations in a row that parse the same message make exactly one status
\* delivery attempt between them.
C1_Original ==
    ParsedAndDone =>
        /\ StatusAttempts(cur) = (IF message # prev.last_message THEN 1 ELSE 0)
        /\ last_message = message
        /\ (cycle >= 2 /\ prev.parsed = message) =>
               prev.status_attempts + StatusAttempts(cur) = 1

\* C1 as amended: the same, but two iterations in a row that parse the same
\* message make at most one status delivery attempt between them, and the
\* second of them makes none.
C1_Amended ==
    ParsedAndDone =>
        /\ StatusAttempts(cur) = (IF message # prev.last_message THEN 1 ELSE 0)
        /\ last_message = message
        /\ (cycle >= 2 /\ prev.parsed = message) =>
               /\ StatusAttempts(cur) = 0
               /\ prev.status_attempts + StatusAttempts(cur) <= 1

\* two iterations in a row parsed the same message, the first delivered it
C1_Witness ==
    /\ ParsedAndDone
    /\ cycle >= 2
    /\ prev.parsed = message
    /\ prev.status_attempts = 1
    /\ StatusAttempts(cur) = 0

\* C2 as stated: when two iterations in a row end with the same exception
\* text, exactly one error notification is attempted between them.
C2_Claim ==
    (/\ pc = "finally"
     /\ Failed(cur) /\ error.some
     /\ prev.failed /\ prev.error.some
     /\ StrOfExc(prev.error.v) = StrOfExc(error.v))
    => prev.error_attempts + ErrorAttempts(cur) = 1

\* C3 as stated: when the try-body ends without an exception, timestamp is
\* the clock, and the next fetch asks from a date not before the end of the
\* last iteration that went well.
C3_Claim ==
    /\ (pc = "finally" /\ ~Failed(cur)) => timestamp = Some(now)
    /\ (pc = "fetch" /\ cycle >= 2 /\ ~prev.failed /\ ok_time.some) =>
           timestamp.v >= ok_time.v

\* C4: an iteration that went through a handler leaves timestamp as it was,
\* and the fetch after it asks from the same date as the failed one.
C4_Theorem ==
    /\ (Failed(cur) /\ Len(Requests(cur)) >= 1) =>
           timestamp.v = Requests(cur)[1].from_date
    /\ (cycle >= 2 /\ prev.failed /\ pc = "fetch") =>
           timestamp.v = prev.from_dates[1]
    /\ (cycle >= 2 /\ prev.failed /\ Len(Requests(cur)) >= 1) =>
           Requests(cur)[1].from_date = prev.from_dates[1]

\* a fetch was issued after an iteration that failed
C4_Witness ==
    /\ cycle >= 2
    /\ prev.failed
    /\ Len(Requests(cur)) = 1
    /\ Requests(cur)[1].from_date = prev.from_dates[1]

\* C5: every iteration ends with one sleep of RETRY_PERIOD = 600 seconds,
\* whichever way it went, and an iteration fetches once: between two fetches
\* lies exactly one sleep.
C5_Theorem ==
    /\ RETRY_PERIOD = 600
    /\ Len(Requests(cur)) <= 1
    /\ Len(Sleeps(cur)) = 0
    /\ cycle >= 2 => (prev.requests = 1 /\ prev.sleeps = <<RETRY_PERIOD>>)
    /\ (pc = "fetch" /\ cycle >= 2) => cur = <<>>

\* the fetch after an iteration that failed and slept once
C5_Witness ==
    /\ cycle >= 2
    /\ prev.failed
    /\ prev.sleeps = <<600>>
    /\ Len(Requests(cur)) = 1

\* an error has occurred in this iteration: an exception is on its way to a
\* handler, or a delivery has failed
ErrorSeen ==
    \/ pc = "except"
    \/ Len(SelectSeq(cur, LAMBDA e : e.ev = "deliver" /\ e.outcome # "ok")) > 0

\* the iteration before this one had an error and has slept
SleptAfterError ==
    /\ cycle >= 2
    /\ pc = "fetch"
    /\ cur = <<>>
    /\ prev.failed \/ prev.delivery_failures > 0
    /\ prev.sleeps = <<RETRY_PERIOD>>

\* C6: once check_tokens has passed the process never ends; after an error
\* in an iteration the loop reaches the end of its sleep, and from there
\* (within the iterations explored) it issues the next request.
C6_Theorem ==
    /\ [](cycle >= 1 => (exit_code = None /\ pc \notin {"exited", "crashed"}))
    /\ (ErrorSeen /\ cycle <= MaxCycles) ~> SleptAfterError
    /\ (SleptAfterError /\ cycle <= MaxCycles) ~> (Len(Requests(cur)) = 1)

\* a request issued after an iteration that failed and whose error
\* notification could not be delivered
C6_Witness ==
    /\ cycle >= 2
    /\ prev.failed
    /\ prev.error_attempts = 1
    /\ prev.delivery_failures = 1
    /\ Len(Requests(cur)) = 1

\* C7: every call of send_message makes one delivery attempt, a failed
\* attempt is followed by the error record of send_message, and the call
\* returns: after the status call main() stands behind the try-body with no
\* exception, after the error call it stands behind the handler.
C7_Theorem ==
    /\ \A i \in SendCalls(cur) :
         /\ i + 1 <= Len(cur)
         /\ cur[i + 1].ev = "deliver"
         /\ cur[i + 1].outcome # "ok" =>
               (i + 2 <= Len(cur) /\ cur[i + 2] = EvLog("error", "send_message"))
    /\ Len(Deliveries(cur)) = Cardinality(SendCalls(cur))
    /\ Len(Logs(cur, "error", "send_message"))
         = Len(SelectSeq(cur, LAMBDA e : e.ev = "deliver" /\ e.outcome # "ok"))
    /\ Len(Calls(cur, "send_message:status")) > 0 =>
         (pc = "finally" /\ ~Failed(cur) /\ error = None)
    /\ Len(Calls(cur, "send_message:error")) > 0 => pc = "finally"
    /\ pc \notin {"finally_raise", "crashed"}

\* the status delivery failed with a TelegramError and main() went on
C7_Witness ==
    /\ pc = "finally"
    /\ ~Failed(cur)
    /\ last_message = message
    /\ \E i \in SendCalls(cur) :
         /\ cur[i].fn = "send_message:status"
         /\ cur[i + 1].ev = "deliver"
         /\ cur[i + 1].outcome = "TelegramError"
         /\ cur[i + 2] = EvLog("error", "send_message")

\* get_api_answer has just come back to main()
AfterFetch ==
    /\ net.some
    /\ pc \in {"check", "except"}
    /\ Len(Calls(cur, "check_response")) = 0
\* the classes of a failure of the connection
ConnectivityErrors == {"ConnectionError", "RequestException"}

\* C8 as stated: when requests.get does not complete, get_api_answer raises a
\* connectivity error, which is no IncorrectStatusError.
C8_Claim ==
    (AfterFetch /\ ~net.v.completed) =>
        /\ pc = "except"
        /\ error.some
        /\ Bases(error.v.type) \cap ConnectivityErrors # {}
        /\ ~IsInstance(error.v, "IncorrectStatusError")

\* the text holds the fragments one after the other
Carries(text, fragments) ==
    \E i \in 0..(Len(text) - Len(fragments)) :
        \A j \in 1..Len(fragments) : text[i + j] = fragments[j]

\* get_api_answer raised the IncorrectStatusError of this request
RaisedIncorrectStatus ==
    /\ pc = "except"
    /\ response = None
    /\ error.some
    /\ error.v.type = "IncorrectStatusError"
    /\ Carries(error.v.text, <<Num(net.v.status_code)>>)
    /\ Carries(error.v.text, <<Lit("{'from_date': "), Num(timestamp.v), Lit("}")>>)
\* get_api_answer returned the decoded body
ReturnedBody ==
    /\ pc = "check"
    /\ error = None
    /\ response = Some(net.v.body.value)

\* C9 as stated: a completed fetch with a status other than 200 raises the
\* IncorrectStatusError that carries the status and the parameters and
\* returns no body; one with status 200 returns the decoded body and raises
\* nothing.
C9_Original ==
    (AfterFetch /\ net.v.completed) =>
        IF net.v.status_code # 200 THEN RaisedIncorrectStatus
        ELSE net.v.body.json /\ ReturnedBody

\* C9 as amended: the same, but with status 200 the body is returned when it
\* decodes as JSON; when it does not, response.json() raises its decoding
\* error (no IncorrectStatusError) and nothing is returned.
C9_Amended ==
    (AfterFetch /\ net.v.completed) =>
        IF net.v.status_code # 200 THEN RaisedIncorrectStatus
        ELSE IF net.v.body.json THEN ReturnedBody
        ELSE /\ pc = "except"
             /\ response = None
             /\ error.some
             /\ error.v.type = "JSONDecodeError"

\* a 503 with a well-formed body raised the IncorrectStatusError
C9_Witness ==
    /\ AfterFetch
    /\ net.v.completed
    /\ net.v.status_code = 503
    /\ net.v.body.json
    /\ RaisedIncorrectStatus

\* check_response has just come back to main()
AfterCheck ==
    /\ pc \in {"homeworks", "except"}
    /\ Len(Calls(cur, "check_response")) = 1
    /\ Len(Calls(cur, "parse_status")) = 0
\* a mapping whose `homeworks` is there and is a list
WellShaped(x) ==
    /\ x.t = "dict"
    /\ "homeworks" \in DOMAIN x.d
    /\ x.d["homeworks"].t = "list"

\* C10: check_response raises its TypeError and returns nothing for what is
\* no mapping and for a mapping whose `homeworks` is absent or no list; for
\* a mapping whose `homeworks` is a list it returns the response itself.
C10_Theorem ==
    AfterCheck =>
        IF WellShaped(response.v)
        THEN pc = "homeworks" /\ error = None /\ new_homeworks = response
        ELSE /\ pc = "except"
             /\ new_homeworks = None
             /\ error.some
             /\ error.v.type = "TypeError"
             /\ Len(Logs(cur, "error", "check_response:homeworks"))
                  + Len(Logs(cur, "error", "check_response:response")) = 1

\* a mapping with an empty list and a second key came back as it was
C10_Witness ==
    /\ AfterCheck
    /\ response.v = JDict([homeworks |-> JList(<<>>), current_date |-> JInt(7)])
    /\ new_homeworks = response

\* parse_status has just come back to main()
AfterParse ==
    /\ pc \in {"compare", "except"}
    /\ Len(Calls(cur, "parse_status")) = 1
\* the record that was parsed
ParsedRecord == new_homeworks.v.d["homeworks"].items[1]
\* the sentence the verdict table is to hold for a status
ExpectedVerdict(status) ==
    CASE status = "approved" -> "Rabota proverena: revyueru vsyo ponravilos. Ura!"
      [] status = "reviewing" -> "Rabota vzyata na proverku revyuerom."
      [] status = "rejected" -> "Rabota proverena: u revyuera est zamechaniya."
\* parse_status raised an exception of the type and returned no text
ParseRaised(type) ==
    /\ pc = "except"
    /\ message = None
    /\ error.some
    /\ error.v.type = type

\* C11: for a record (a mapping whose name and status, when there, are
\* strings) without `homework_name`, parse_status raises the KeyError whatever
\* the status; with the name and a status that is absent or none of
\* approved, reviewing, rejected it raises the ValueError of the unknown
\* status; else it returns the sentence with the name and the verdict.
C11_Theorem ==
    (AfterParse /\ IsDict(ParsedRecord)) =>
        IF "homework_name" \notin DOMAIN ParsedRecord.d
        THEN ParseRaised("KeyError")
        ELSE IF \/ "status" \notin DOMAIN ParsedRecord.d
                \/ ParsedRecord.d["status"].v \notin {"approved", "reviewing", "rejected"}
        THEN /\ ParseRaised("ValueError")
             /\ Carries(error.v.text, <<Lit("Neizvestnyj status domashnej raboty: ")>>)
        ELSE /\ pc = "compare"
             /\ error = None
             /\ message = Some(<<Lit("Izmenilsya status proverki raboty \""),
                                 Lit(ParsedRecord.d["homework_name"].v),
                                 Lit("\". "),
                                 Lit(ExpectedVerdict(ParsedRecord.d["status"].v))>>)

\* a record with an unknown status and no name raised the KeyError
C11_Witness ==
    /\ AfterParse
    /\ ParsedRecord = JDict([status |-> JStr("bogus")])
    /\ ParseRaised("KeyError")

\* one of the three credentials is not set or is empty
CredentialMissing ==
    \E name \in {"PRACTICUM_TOKEN", "TELEGRAM_TOKEN", "TELEGRAM_CHAT_ID"} :
        tokens[name] \in {"<unset>", ""}
\* main() has made no request, no delivery attempt and no sleep
NothingDone ==
    /\ cycle = 0
    /\ prev = NoSummary
    /\ Len(Requests(cur)) = 0
    /\ Len(Deliveries(cur)) = 0
    /\ Len(Sleeps(cur)) = 0
    /\ Len(Calls(cur, "get_api_answer")) = 0

\* C12: with a credential missing or empty the process ends in check_tokens
\* with a status other than 0 and main() fetches, delivers and sleeps
\* nothing; with the three present check_tokens returns, the process does
\* not end, and main() goes on into the loop.
C12_Theorem ==
    IF CredentialMissing
    THEN /\ pc \in {"check_tokens", "exited"}
         /\ NothingDone
         /\ pc = "exited" =>
              (exit_code.some /\ exit_code.v # 0
               /\ Len(Logs(cur, "critical", "check_tokens")) = 1)
    ELSE /\ pc # "exited"
         /\ Len(Logs(cur, "critical", "check_tokens")) = 0
         /\ exit_code = None
         /\ pc # "check_tokens" =>
              pc \in {"main_init", "fetch", "check", "homeworks", "compare",
                      "except", "finally"}

\* the recipient is empty, the two tokens are there: the process has ended
C12_Witness ==
    /\ tokens = [PRACTICUM_TOKEN |-> "tok", TELEGRAM_TOKEN |-> "tok",
                 TELEGRAM_CHAT_ID |-> ""]
    /\ pc = "exited"
    /\ exit_code = Some(1)
    /\ NothingDone

\* the answer of this iteration is a mapping with an empty `homeworks` list
EmptyAnswer ==
    /\ net.some
    /\ net.v.completed
    /\ net.v.status_code = 200
    /\ net.v.body.json
    /\ WellShaped(net.v.body.value)
    /\ Len(net.v.body.value.d["homeworks"].items) = 0

\* C13: in an iteration whose answer is a mapping with an empty list nothing
\* is delivered, no handler is entered and last_message stays what it was.
C13_Theorem ==
    EmptyAnswer =>
        /\ Len(Deliveries(cur)) = 0
        /\ Cardinality(SendCalls(cur)) = 0
        /\ pc \in {"check", "homeworks", "finally"}
        /\ ~Failed(cur)
        /\ error = None
        /\ last_message = prev.last_message
        /\ pc = "finally" => Len(Logs(cur, "debug", "main:no_new_statuses")) = 1

\* an iteration with an empty list is over and a message sent before it is
\* still remembered
C13_Witness ==
    /\ EmptyAnswer
    /\ pc = "finally"
    /\ cycle >= 2
    /\ last_message.some
    /\ last_message = prev.last_message
    /\ Len(Deliveries(cur)) = 0

\* the answer of this iteration is a mapping with a list of some records
ListAnswer ==
    /\ net.some
    /\ net.v.completed
    /\ net.v.status_code = 200
    /\ net.v.body.json
    /\ WellShaped(net.v.body.value)
    /\ Len(net.v.body.value.d["homeworks"].items) >= 1
\* what parse_status makes of the first record of the answer
FirstParsed == parse_status(net.v.body.value.d["homeworks"].items[1]).result
\* the texts of the delivery attempts of this iteration
DeliveredTexts == {Deliveries(cur)[i].text : i \in 1..Len(Deliveries(cur))}

\* C14: with a list that is not empty parse_status is called once, and the
\* message sent or held back and the exception handled are those of the
\* first record, whatever the later records are.
C14_Theorem ==
    ListAnswer =>
        /\ Len(Calls(cur, "parse_status")) <= 1
        /\ Len(Logs(cur, "error", "parse_status:status"))
             + Len(Logs(cur, "error", "parse_status:homework_name")) <= 1
        /\ Len(Calls(cur, "parse_status")) = 1 =>
             IF FirstParsed.kind = "return"
             THEN /\ message = Some(FirstParsed.value)
                  /\ error = None
                  /\ ~Failed(cur)
                  /\ DeliveredTexts \subseteq {FirstParsed.value}
             ELSE /\ message = None
                  /\ error = Some(FirstParsed.exc)
                  /\ StatusAttempts(cur) = 0
                  /\ DeliveredTexts \subseteq
                       {<<Lit("Proizoshla oshibka: ")>> \o StrOfExc(FirstParsed.exc)}

\* the first record is good and the second has an unknown status: the
\* message of the first was sent and no handler was entered
C14_Witness ==
    /\ ListAnswer
    /\ net.v.body.value.d["homeworks"].items
         = <<Record("hw1", "approved"), Record("hw1", "bogus")>>
    /\ pc = "finally"
    /\ ~Failed(cur)
    /\ StatusAttempts(cur) = 1
    /\ DeliveredTexts = {<<Lit("Izmenilsya status proverki raboty \""), Lit("hw1"),
                           Lit("\". "),
                           Lit("Rabota proverena: revyueru vsyo ponravilos. Ura!")>>}

\* the delivery attempts of this iteration that failed
FailedDeliveries == SelectSeq(cur, LAMBDA e : e.ev = "deliver" /\ e.outcome # "ok")
\* the status delivery of this iteration failed
StatusDeliveryFailed ==
    \E i \in SendCalls(cur) :
        /\ cur[i].fn = "send_message:status"
        /\ i + 1 <= Len(cur)
        /\ cur[i + 1].ev = "deliver"
        /\ cur[i + 1].outcome # "ok"

\* C15: a failed delivery is followed by no further delivery attempt in the
\* iteration: when the status delivery fails, and when a TelegramError comes
\* to the handlers of main(), no error notification is attempted; an
\* iteration makes one delivery attempt at most.
C15_Theorem ==
    /\ StatusDeliveryFailed =>
         /\ ErrorAttempts(cur) = 0
         /\ Len(Deliveries(cur)) = 1
    /\ Len(Logs(cur, "error", "main:TelegramError")) > 0 => ErrorAttempts(cur) = 0
    /\ Len(FailedDeliveries) > 0 => Len(Deliveries(cur)) = 1
    /\ (Len(FailedDeliveries) > 0 /\ pc = "finally") =>
         Len(Logs(cur, "error", "send_message"))
           + Len(Logs(cur, "error", "main:TelegramError")) >= 1
    /\ Len(Deliveries(cur)) <= 1

\* the status delivery failed with something that is no TelegramError, and
\* the iteration ended with that one attempt
C15_Witness ==
    /\ pc = "finally"
    /\ StatusDeliveryFailed
    /\ Deliveries(cur)[1].outcome = "RuntimeError"
    /\ Len(Deliveries(cur)) = 1
    /\ ErrorAttempts(cur) = 0

\* the status deliveries of this iteration that went through
DeliveredStatus ==
    {cur[i + 1].text : i \in {j \in SendCalls(cur) :
        /\ cur[j].fn = "send_message:status"
        /\ j + 1 <= Len(cur)
        /\ cur[j + 1].ev = "deliver"
        /\ cur[j + 1].outcome = "ok"}}

\* C16 as stated: last_message changes in an iteration exactly when a status
\* notification was delivered, and then to the text delivered; a message
\* whose delivery failed is not recorded.
C16_Claim ==
    (pc = "finally" /\ cycle >= 1) =>
        /\ (last_message # prev.last_message) <=> (DeliveredStatus # {})
        /\ DeliveredStatus # {} => (last_message.some /\ DeliveredStatus = {last_message.v})
        /\ StatusDeliveryFailed => last_message = prev.last_message

\* the places in the trace of the calls of a function
Places(trace, fns) ==
    {i \in 1..Len(trace) : trace[i].ev = "call" /\ trace[i].fn \in fns}
\* every place of the first set comes before every place of the second
AllBefore(A, B) == \A a \in A : \A b \in B : a < b

\* C17: an iteration calls get_api_answer once, and get_api_answer sends one
\* request; check_response, parse_status and send_message are called once at
\* most, in this order, so that an iteration never sends a status and an
\* error notification both.
C17_Theorem ==
    LET fetches == Places(cur, {"get_api_answer"})
        checks == Places(cur, {"check_response"})
        parses == Places(cur, {"parse_status"})
        sends == Places(cur, {"send_message:status", "send_message:error"})
    IN /\ Cardinality(fetches) <= 1
       /\ Len(Requests(cur)) = Cardinality(fetches)
       /\ pc \in {"check", "homeworks", "compare", "except", "finally"} =>
            Cardinality(fetches) = 1
       /\ Cardinality(checks) <= 1
       /\ Cardinality(parses) <= 1
       /\ Cardinality(sends) <= 1
       /\ Len(Deliveries(cur)) <= 1
       /\ StatusAttempts(cur) + ErrorAttempts(cur) <= 1
       /\ AllBefore(fetches, checks \cup parses \cup sends)
       /\ AllBefore(checks, parses \cup sends)
       /\ AllBefore(parses, sends)
       /\ parses # {} => checks # {}
       /\ cycle >= 2 => prev.requests = 1

\* an iteration that fetched, validated, parsed and delivered, in this order
C17_Witness ==
    /\ pc = "finally"
    /\ Len(cur) = 6
    /\ cur[1] = EvCall("get_api_answer")
    /\ cur[2].ev = "request"
    /\ cur[3] = EvCall("check_response")
    /\ cur[4] = EvCall("parse_status")
    /\ cur[5] = EvCall("send_message:status")
    /\ cur[6].ev = "deliver"

\* the errors check_response raises for the mappings whose `homeworks` is
\* absent or no list
MappingShapeErrors ==
    {check_response(x).result.exc : x \in {b \in DecodedBodies : IsDict(b) /\ ~WellShaped(b)}}

\* C18: the error check_response raises for a response that is no mapping can
\* be told from the one it raises for a mapping whose `homeworks` is absent
\* or no list.
C18_Claim ==
    (AfterCheck /\ pc = "except" /\ ~IsDict(response.v)) =>
        /\ error.some
        /\ error.v \notin MappingShapeErrors

\* the first iteration; the clock still shows the time of the start
FirstCycle == cycle = 1 /\ pc # "main_init"

\* C19 as stated: before the first iteration last_message is empty and the
\* timestamp is the time of the start, and the first request asks from the
\* time of the start.
C19_Original ==
    /\ (FirstCycle /\ pc = "fetch") => (last_message = None /\ timestamp = Some(now))
    /\ FirstCycle => \A i \in 1..Len(Requests(cur)) : Requests(cur)[i].from_date = now

\* C19, amended: before the first iteration last_message is empty, nothing of
\* an earlier iteration is kept, and the timestamp is the time of the start
\* less RETRY_PERIOD; the first request asks from that time.
C19_Amended ==
    /\ (FirstCycle /\ pc = "fetch") =>
         /\ last_message = None
         /\ timestamp = Some(now - RETRY_PERIOD)
         /\ prev = NoSummary
         /\ cur = <<>>
         /\ error = None
    /\ FirstCycle =>
         \A i \in 1..Len(Requests(cur)) : Requests(cur)[i].from_date = now - RETRY_PERIOD
    /\ (FirstCycle /\ pc \notin {"fetch"}) => Len(Requests(cur)) = 1

\* the first request has gone out, asking from RETRY_PERIOD before the start
C19_Witness ==
    /\ FirstCycle
    /\ Len(Requests(cur)) = 1
    /\ Requests(cur)[1].from_date = now - RETRY_PERIOD
    /\ now \in StartTimes

\* the message parsed in this iteration is the one last_message held when
\* the iteration before, which went through a handler, was over
SameAfterError ==
    /\ cycle >= 2
    /\ prev.failed
    /\ message.some
    /\ message = prev.last_message

\* C20: an iteration that goes through a handler of main() leaves
\* last_message as it was, an error notification or none; so when the
\* iteration after it parses the message last_message holds, no status
\* notification of it is attempted.
C20_Theorem ==
    /\ (pc = "except" \/ Failed(cur)) =>
         /\ last_message = prev.last_message
         /\ StatusAttempts(cur) = 0
    /\ (SameAfterError /\ pc \in {"compare", "finally"}) =>
         /\ StatusAttempts(cur) = 0
         /\ last_message = message

\* a status was notified, an iteration with an error notification followed,
\* and the same message, parsed again, was not sent
C20_Witness ==
    /\ cycle = 3
    /\ pc = "finally"
    /\ SameAfterError
    /\ prev.error_attempts = 1
    /\ StatusAttempts(cur) = 0
    /\ Len(Calls(cur, "parse_status")) = 1
    /\ last_message = message

=============================================================================
